---- MODULE Spec2Model ----
(***************************************************************************)
(* Model of streamlit_app.py: a stock monitor that fetches product pages,  *)
(* classifies their stock state, detects changes against the previous      *)
(* content hash, keeps a per-URL record in a JSON snapshot and sends       *)
(* e-mail on change.                                                       *)
(*                                                                         *)
(* Abstractions: a string of page text is a sequence of words (substring   *)
(* search is contiguous sub-sequence search); an error message is a pair   *)
(* (text, length); md5 is taken to be injective on the serialized blob;    *)
(* a timestamp is the value of a counter that advances on every now_iso(). *)
(***************************************************************************)
EXTENDS Integers, Sequences, FiniteSets, TLC

VARIABLES
    file,      \* content of DATA_PATH: the persisted snapshot (ordered dict url -> target)
    state,     \* the script run's in-memory `state["targets"]`
    pc,        \* position of the script run: "idle" or inside the "Check all now" loop
    todo,      \* "Check all now": the keys still to be visited by the for loop
    failures,  \* "Check all now": the local `failures`
    clock,     \* number of now_iso() calls made so far
    nchecks,   \* per URL: number of perform_check invocations since first registration
    last,      \* observation of the most recent handler step
    sig,       \* the dict most recently handed to stock_status
    cls,       \* what stock_status returned for it
    lastok,    \* per URL: hash and status of the latest perform_check that succeeded
    req,       \* fetch on its own: the url and the server's answers
    resp,      \* fetch on its own: what fetch returned for req
    wpos,      \* save_state in steps: "closed", "truncated" (opened with "w") or "partial"
    seen       \* what a second session's load_state returned while the first one saves

vars == <<file, state, pc, todo, failures, clock, nchecks, last, sig, cls,
          lastok, req, resp, wpos, seen>>

\* the variables of the specifications of fetch and of the concurrent reader
aux == <<req, resp, wpos, seen>>

-----------------------------------------------------------------------------
(* Bounds *)

MaxClock == 4

-----------------------------------------------------------------------------
(* Generic helpers *)

Min(a, b) == IF a < b THEN a ELSE b

\* Python `k in t` for strings, on word sequences
Contains(k, t) ==
    \E i \in 1..(Len(t) - Len(k) + 1) : SubSeq(t, i, i + Len(k) - 1) = k

\* str.lower() on one word
LowerWord(w) ==
    CASE w = "Add"    -> "add"
      [] w = "Cart"   -> "cart"
      [] w = "Bag"    -> "bag"
      [] w = "Notify" -> "notify"
      [] w = "Me"     -> "me"
      [] w = "Out"    -> "out"
      [] w = "Stock"  -> "stock"
      [] w = "Product" -> "product"
      [] OTHER        -> w

Lower(s) == [i \in 1..Len(s) |-> LowerWord(s[i])]

\* dict.get(k, default)
DictGet(d, k, default) == IF k \in DOMAIN d THEN d[k] ELSE default

-----------------------------------------------------------------------------
(* Stock parsing and classification *)

\* A page is a sequence of elements [tag, class, text]; text and class are
\* word sequences in their original case.
IsNotifyButton(e) == e.tag = "button" /\ Contains(<<"notify", "me">>, Lower(e.text))

IsAddButton(e) ==
    /\ e.tag = "button"
    /\ \E k \in {<<"add", "to", "cart">>, <<"add", "to", "bag">>, <<"buy", "now">>, <<"purchase">>} :
          Contains(k, Lower(e.text))

IsProductDiv(e) == e.tag = "div" /\ Contains(<<"product">>, Lower(e.class))

\* soup.find: index of the first matching div, 0 for None
ProductDivIndex(html) ==
    IF \E i \in 1..Len(html) : IsProductDiv(html[i])
    THEN CHOOSE i \in 1..Len(html) :
            IsProductDiv(html[i]) /\ \A j \in 1..(i-1) : ~IsProductDiv(html[j])
    ELSE 0

RECURSIVE get_text(_)
get_text(html) ==
    IF html = <<>> THEN <<>> ELSE Head(html).text \o get_text(Tail(html))

extract_stock_info(html) ==
    LET notify == IF \E i \in 1..Len(html) : IsNotifyButton(html[i])
                  THEN [notify_button |-> TRUE] ELSE <<>>
        add    == IF \E i \in 1..Len(html) : IsAddButton(html[i])
                  THEN [add_to_cart |-> TRUE] ELSE <<>>
        text   == [full_text |-> Lower(get_text(html))]
        p      == ProductDivIndex(html)
        prod   == IF p # 0 THEN [product_section |-> Lower(html[p].text)] ELSE <<>>
    IN  notify @@ add @@ text @@ prod

out_keys ==
    << <<"notify", "you", "when", "this", "product", "is", "back", "in", "stock">>,
       <<"notify", "me">>,
       <<"out", "of", "stock">>,
       <<"unavailable">> >>

in_keys ==
    << <<"add", "to", "cart">>, <<"add", "to", "bag">>, <<"buy", "now">>,
       <<"purchase">>, <<"in", "stock">> >>

AnyKeyIn(keys, t) == \E i \in 1..Len(keys) : Contains(keys[i], t)

\* the first two tests of the cascade in the opposite order
stock_status_cart_first(stock) ==
    IF DictGet(stock, "add_to_cart", FALSE) THEN "IN_STOCK"
    ELSE IF DictGet(stock, "notify_button", FALSE) THEN "OUT_OF_STOCK"
    ELSE LET t == DictGet(stock, "full_text", <<>>)
         IN  IF AnyKeyIn(out_keys, t) THEN "OUT_OF_STOCK"
             ELSE IF AnyKeyIn(in_keys, t) THEN "IN_STOCK"
             ELSE "UNKNOWN"

stock_status(stock) ==
    IF DictGet(stock, "notify_button", FALSE) THEN "OUT_OF_STOCK"
    ELSE IF DictGet(stock, "add_to_cart", FALSE) THEN "IN_STOCK"
    ELSE LET t == DictGet(stock, "full_text", <<>>)
         IN  IF AnyKeyIn(out_keys, t) THEN "OUT_OF_STOCK"
             ELSE IF AnyKeyIn(in_keys, t) THEN "IN_STOCK"
             ELSE "UNKNOWN"

\* json.dumps(obj, sort_keys=True): the keys in sorted order, each followed by
\* its value; md5 of the blob is represented by the blob itself.
SortedKeys == <<"add_to_cart", "full_text", "notify_button", "product_section">>

DumpValue(k, v) ==
    IF k \in {"add_to_cart", "notify_button"}
    THEN <<(IF v THEN "true" ELSE "false")>>
    ELSE <<"\"">> \o v \o <<"\"">>

RECURSIVE DumpFrom(_, _)
DumpFrom(obj, i) ==
    IF i > Len(SortedKeys) THEN <<>>
    ELSE LET k == SortedKeys[i]
         IN  (IF k \in DOMAIN obj THEN <<k, ":">> \o DumpValue(k, obj[k]) ELSE <<>>)
             \o DumpFrom(obj, i + 1)

content_hash(obj) == <<"{">> \o DumpFrom(obj, 1) \o <<"}">>

-----------------------------------------------------------------------------
(* Fetching *)

\* A response of session.get: status 0 stands for an exception raised by
\* session.get itself (timeout, connection error); body is the page.
\* str(e) of the exception a response leads to, as (text, length): the
\* message of an HTTPError ends in the url, so its length grows with the url.
UrlLen(url) == IF url = "A" THEN 40 ELSE 320

ErrorOf(url, r) ==
    IF r.status = 0
    THEN [text |-> "ConnectTimeout", len |-> 60]
    ELSE [text |-> (CASE r.status = 403 -> "403 Client Error: Forbidden for url"
                      [] r.status = 429 -> "429 Client Error: Too Many Requests for url"
                      [] r.status = 404 -> "404 Client Error: Not Found for url"
                      [] OTHER          -> "500 Server Error for url"),
          len |-> 45 + UrlLen(url)]

\* r.raise_for_status(); return r.text
RaiseOrReturn(url, r, attempts, slept) ==
    IF r.status >= 400
    THEN [ok |-> FALSE, text |-> <<>>, err |-> ErrorOf(url, r), attempts |-> attempts, slept |-> slept]
    ELSE [ok |-> TRUE, text |-> r.body, err |-> [text |-> "", len |-> 0],
          attempts |-> attempts, slept |-> slept]

\* a retry loop that sleeps 5 seconds whatever the attempt
RECURSIVE fetch_loop_flat_wait(_, _, _, _)
fetch_loop_flat_wait(url, resps, attempt, slept) ==
    IF attempt >= 3
    THEN RaiseOrReturn(url, resps[3], 3, slept)
    ELSE LET r == resps[attempt + 1]
         IN  IF r.status = 0
             THEN [ok |-> FALSE, text |-> <<>>, err |-> ErrorOf(url, r),
                   attempts |-> attempt + 1, slept |-> slept]
             ELSE IF r.status \in {403, 429}
             THEN fetch_loop_flat_wait(url, resps, attempt + 1, slept + 5)
             ELSE RaiseOrReturn(url, r, attempt + 1, slept)

RECURSIVE fetch_loop(_, _, _, _)
fetch_loop(url, resps, attempt, slept) ==
    IF attempt >= 3
    THEN RaiseOrReturn(url, resps[3], 3, slept)
    ELSE LET r == resps[attempt + 1]
         IN  IF r.status = 0
             THEN [ok |-> FALSE, text |-> <<>>, err |-> ErrorOf(url, r),
                   attempts |-> attempt + 1, slept |-> slept]
             ELSE IF r.status \in {403, 429}
             THEN fetch_loop(url, resps, attempt + 1, slept + 5 * (attempt + 1))
             ELSE RaiseOrReturn(url, r, attempt + 1, slept)

fetch(url, resps) == fetch_loop(url, resps, 0, 0)

-----------------------------------------------------------------------------
(* E-mail *)

\* cfg: the "email" section of the secrets; smtp: how the SMTP server behaves
\* (connect: the constructor succeeds; login: starttls and login succeed;
\* fail_at: index of the recipient whose sendmail raises, 0 for none).
\* Result: opened (the guard was passed), sent (recipients sendmail was called
\* for, in order), raised (an exception left send_email).
send_email(cfg, recipients, smtp) ==
    IF ~(cfg.enabled /\ cfg.sender # "" /\ cfg.password # "" /\ recipients # <<>>)
    THEN [opened |-> FALSE, sent |-> <<>>, raised |-> FALSE]
    ELSE IF ~smtp.connect
    THEN [opened |-> TRUE, sent |-> <<>>, raised |-> TRUE]
    ELSE IF ~smtp.login
    THEN [opened |-> TRUE, sent |-> <<>>, raised |-> TRUE]
    ELSE IF smtp.fail_at \in 1..Len(recipients)
    THEN [opened |-> TRUE, sent |-> SubSeq(recipients, 1, smtp.fail_at), raised |-> TRUE]
    ELSE [opened |-> TRUE, sent |-> recipients, raised |-> FALSE]

NoMail == [opened |-> FALSE, sent |-> <<>>, raised |-> FALSE]

-----------------------------------------------------------------------------
(* Target records and the snapshot *)

NoHash  == <<>>                         \* previous_hash is None
NoTime  == 0                            \* last_checked / last_change is None
NoError == [text |-> "", len |-> 0]     \* last_error == ""

\* The ordered dict state["targets"] is a sequence of target records, in
\* insertion order, keyed by their url.
Keys(targets) == [i \in 1..Len(targets) |-> targets[i].url]

Has(targets, u) == \E i \in 1..Len(targets) : targets[i].url = u

Get(targets, u) == targets[CHOOSE i \in 1..Len(targets) : targets[i].url = u]

\* an assignment that writes t over every stored target
PutOverAll(targets, u, t) ==
    IF Has(targets, u)
    THEN [i \in 1..Len(targets) |-> t]
    ELSE Append(targets, t)

\* state["targets"][u] = t
Put(targets, u, t) ==
    IF Has(targets, u)
    THEN [i \in 1..Len(targets) |-> IF targets[i].url = u THEN t ELSE targets[i]]
    ELSE Append(targets, t)

load_state(f) == f

save_state(st) == st

\* str.strip() on one piece of the comma-separated input
Strip(e) ==
    CASE e = " a@x.com" -> "a@x.com"
      [] e = " "        -> ""
      [] OTHER          -> e

RECURSIVE ParseRecipients(_)
ParseRecipients(pieces) ==
    IF pieces = <<>> THEN <<>>
    ELSE (IF Strip(Head(pieces)) # "" THEN <<Strip(Head(pieces))>> ELSE <<>>)
         \o ParseRecipients(Tail(pieces))

\* what t.get(k, default) yields on the empty dict
Blank ==
    [last_checked |-> NoTime, last_status |-> "UNKNOWN", previous_hash |-> NoHash,
     last_change |-> NoTime, change_count |-> 0, success_count |-> 0,
     fail_count |-> 0, last_error |-> NoError, log |-> <<>>]

\* a registration that builds a fresh record instead of merging
UpsertFresh(targets, url, interval_min, pieces) ==
    Put(targets, url,
        [url |-> url, interval_sec |-> interval_min * 60,
         recipients |-> ParseRecipients(pieces),
         last_checked |-> NoTime, last_status |-> "UNKNOWN", previous_hash |-> NoHash,
         last_change |-> NoTime, change_count |-> 0, success_count |-> 0,
         fail_count |-> 0, last_error |-> NoError, log |-> <<>>])

\* t.update({...}): the configuration from the form, every other field from
\* the stored record old (or the defaults of t.get)
Merge(old, url, interval_min, pieces) ==
    [url |-> url,
     interval_sec |-> interval_min * 60,
     recipients |-> ParseRecipients(pieces),
     last_checked |-> old.last_checked,
     last_status |-> old.last_status,
     previous_hash |-> old.previous_hash,
     last_change |-> old.last_change,
     change_count |-> old.change_count,
     success_count |-> old.success_count,
     fail_count |-> old.fail_count,
     last_error |-> old.last_error,
     log |-> old.log]

\* the body of "Add or update tracked URL" up to save_state
Upsert(targets, url, interval_min, pieces) ==
    Put(targets, url,
        Merge(IF Has(targets, url) THEN Get(targets, url) ELSE Blank,
              url, interval_min, pieces))

-----------------------------------------------------------------------------
(* Core check routine *)

\* a comparison that takes the absent baseline for a different hash
ChangedNoBaseline(t, h) == h # t.previous_hash

\* bool(t.get("previous_hash") and h != t["previous_hash"])
Changed(t, h) == t.previous_hash # NoHash /\ h # t.previous_hash

\* a truncation that keeps the whole message
TruncateNone(e) == e

\* str(e)[:300]
Truncate(e) == [e EXCEPT !.len = Min(@, 300)]

\* a change branch that logs the change without counting it
RecordChangeNoCount(t, new_status, at) ==
    [t EXCEPT !.last_change = at,
              !.log = Append(@, [at |-> at, status |-> new_status, event |-> "changed"])]

\* a change branch that keeps only the newest log entry
RecordChangeLastOnly(t, new_status, at) ==
    [t EXCEPT !.last_change = at,
              !.change_count = @ + 1,
              !.log = <<[at |-> at, status |-> new_status, event |-> "changed"]>>]

\* the body of `if changed:`; at is what now_iso() returns
RecordChange(t, new_status, at) ==
    [t EXCEPT !.last_change = at,
              !.change_count = @ + 1,
              !.log = Append(@, [at |-> at, status |-> new_status, event |-> "changed"])]

\* a success that is not counted
RecordSuccessNoCount(t, h, new_status, at) ==
    [t EXCEPT !.previous_hash = h,
              !.last_status = new_status,
              !.last_checked = at,
              !.last_error = NoError]

\* a success that leaves the baseline hash alone
RecordSuccessStaleHash(t, h, new_status, at) ==
    [t EXCEPT !.last_status = new_status,
              !.last_checked = at,
              !.success_count = @ + 1,
              !.last_error = NoError]

\* the five assignments that end the try branch
RecordSuccess(t, h, new_status, at) ==
    [t EXCEPT !.previous_hash = h,
              !.last_status = new_status,
              !.last_checked = at,
              !.success_count = @ + 1,
              !.last_error = NoError]

\* lines 173-184, given the extracted signals, their hash and their status;
\* now is the clock before the call
SuccessOutcome(t, s_info, h, new_status, now) ==
    IF Changed(t, h)
    THEN [t |-> RecordSuccess(RecordChange(t, new_status, now + 1), h, new_status, now + 2),
          status |-> new_status, changed |-> TRUE, ticks |-> 2,
          ok |-> TRUE, s_info |-> s_info]
    ELSE [t |-> RecordSuccess(t, h, new_status, now + 1),
          status |-> new_status, changed |-> FALSE, ticks |-> 1,
          ok |-> TRUE, s_info |-> s_info]

\* lines 170-171
Classified(t, s_info, now) ==
    SuccessOutcome(t, s_info, content_hash(s_info), stock_status(s_info), now)

\* the try branch once fetch has returned html
CheckSucceeded(t, html, now) == Classified(t, extract_stock_info(html), now)

\* a failure handler that logs the stored status instead of "ERROR"
RecordFailureLogsStored(t, err, at) ==
    [t EXCEPT !.last_checked = at,
              !.fail_count = @ + 1,
              !.last_error = err,
              !.log = Append(@, [at |-> at, status |-> t.last_status,
                                 event |-> "failure", error |-> err])]

\* a failure handler that also stores the failure as the status
RecordFailureSetsStatus(t, err, at) ==
    [t EXCEPT !.last_checked = at,
              !.fail_count = @ + 1,
              !.last_status = "ERROR",
              !.last_error = err,
              !.log = Append(@, [at |-> at, status |-> "ERROR",
                                 event |-> "failure", error |-> err])]

\* the four assignments of the except branch; err is str(e)[:300]
RecordFailure(t, err, at) ==
    [t EXCEPT !.last_checked = at,
              !.fail_count = @ + 1,
              !.last_error = err,
              !.log = Append(@, [at |-> at, status |-> "ERROR",
                                 event |-> "failure", error |-> err])]

\* the except branch
CheckFailed(t, e, now) ==
    [t |-> RecordFailure(t, Truncate(e), now + 1),
     status |-> "ERROR", changed |-> FALSE, ticks |-> 1,
     ok |-> FALSE, s_info |-> <<>>]

\* try / except around the result f of fetch
AfterFetch(t, f, now) ==
    IF f.ok THEN CheckSucceeded(t, f.text, now) ELSE CheckFailed(t, f.err, now)

perform_check(url, t, resps, now) == AfterFetch(t, fetch(url, resps), now)

-----------------------------------------------------------------------------
(* Inputs *)

URLs == {"A", "B"}

\* (interval_min, recipients_str.split(",")) as typed into the sidebar:
\* the defaults (5 minutes, recipients "") for either URL, and for A also
\* 1 minute with recipients "a@x.com, ,b@x.com"
RegInputs(url) ==
    IF url = "A"
    THEN { <<5, <<"">> >>, <<1, <<"a@x.com", " ", "b@x.com">> >> }
    ELSE { <<5, <<"">> >> }

PageNotify ==
    << [tag |-> "div", class |-> <<"Product", "info">>, text |-> <<"sold">>],
       [tag |-> "button", class |-> <<>>, text |-> <<"Notify", "Me">>] >>

PageBagOut ==
    << [tag |-> "button", class |-> <<>>, text |-> <<"Add", "to", "Bag">>],
       [tag |-> "p", class |-> <<>>, text |-> <<"Out", "of", "Stock">>] >>

Ok(page) == [status |-> 200, body |-> page]

Http(code) == [status |-> code, body |-> <<>>]

Timeout == [status |-> 0, body |-> <<>>]

\* what the server answers to the (up to) three GETs of one fetch
Scripts ==
    { <<Ok(PageBagOut), Ok(PageBagOut), Ok(PageBagOut)>>,
      <<Http(403), Ok(PageNotify), Ok(PageNotify)>>,
      <<Http(429), Http(403), Http(429)>> }

Cfgs ==
    { [enabled |-> TRUE,  sender |-> "me@x.com", password |-> "pw"],
      [enabled |-> FALSE, sender |-> "me@x.com", password |-> "pw"],
      [enabled |-> TRUE,  sender |-> "",         password |-> "pw"],
      [enabled |-> TRUE,  sender |-> "me@x.com", password |-> ""] }

Smtps ==
    { [connect |-> TRUE,  login |-> TRUE,  fail_at |-> 0],
      [connect |-> FALSE, login |-> TRUE,  fail_at |-> 0],
      [connect |-> TRUE,  login |-> FALSE, fail_at |-> 0],
      [connect |-> TRUE,  login |-> TRUE,  fail_at |-> 1] }

Configured(cfg) == cfg.enabled /\ cfg.sender # "" /\ cfg.password # ""

-----------------------------------------------------------------------------
(* The script run *)

NoTarget ==
    [url |-> "", interval_sec |-> 0, recipients |-> <<>>,
     last_checked |-> NoTime, last_status |-> "UNKNOWN", previous_hash |-> NoHash,
     last_change |-> NoTime, change_count |-> 0, success_count |-> 0,
     fail_count |-> 0, last_error |-> NoError, log |-> <<>>]

NoObs ==
    [op |-> "none", url |-> "", pre |-> NoTarget, post |-> NoTarget,
     status |-> "UNKNOWN", changed |-> FALSE, ok |-> FALSE, err |-> NoError,
     mail |-> NoMail, configured |-> FALSE, raised |-> FALSE, report |-> 0,
     base |-> [hash |-> NoHash, status |-> "UNKNOWN"]]

\* no perform_check has succeeded on the URL yet
NoSeen == [hash |-> NoHash, status |-> "UNKNOWN"]

\* fetch has not been called
NoFetch == [ok |-> FALSE, text |-> <<>>, err |-> NoError, attempts |-> 0, slept |-> 0]

NoReq == [url |-> "", resps |-> <<>>]

NoLoad == [loaded |-> FALSE, targets |-> <<>>, old |-> <<>>, new |-> <<>>]

Init ==
    /\ file = <<>>
    /\ state = <<>>
    /\ pc = "idle"
    /\ todo = <<>>
    /\ failures = 0
    /\ clock = 0
    /\ nchecks = [u \in URLs |-> 0]
    /\ last = NoObs
    /\ sig = <<>>
    /\ cls = "UNKNOWN"
    /\ lastok = [u \in URLs |-> NoSeen]
    /\ req = NoReq
    /\ resp = NoFetch
    /\ wpos = "closed"
    /\ seen = NoLoad

\* what a check handler step did: the record before and after perform_check,
\* its result r, the exception message err of the fetch, and the outcome of
\* send_email
ObsRecord(op, u, t0, r, err, cfg, mail) ==
    [op |-> op, url |-> u, pre |-> t0, post |-> r.t,
     status |-> r.status, changed |-> r.changed, ok |-> r.ok, err |-> err,
     mail |-> mail, configured |-> Configured(cfg), raised |-> mail.raised,
     report |-> 0, base |-> lastok[u]]

\* `if changed: send_email(...)` in the non-ERROR branch of both handlers
Notify(r, cfg, smtp) ==
    IF r.status # "ERROR" /\ r.changed
    THEN send_email(cfg, r.t.recipients, smtp)
    ELSE NoMail

\* sidebar button "Add or update tracked URL"
Register(url, interval_min, pieces) ==
    /\ pc = "idle"
    /\ state' = Upsert(load_state(file), url, interval_min, pieces)
    /\ file' = save_state(Upsert(load_state(file), url, interval_min, pieces))
    /\ nchecks' = IF Has(load_state(file), url) THEN nchecks ELSE [nchecks EXCEPT ![url] = 0]
    /\ lastok' = IF Has(load_state(file), url) THEN lastok ELSE [lastok EXCEPT ![url] = NoSeen]
    /\ last' = [NoObs EXCEPT !.op = "register", !.url = url]
    /\ UNCHANGED <<pc, todo, failures, clock, sig, cls, aux>>

\* lines 265-275 with r the result of perform_check and mail that of send_email
CheckSelectedDo(sel, loaded, r, err, cfg, mail) ==
    /\ clock + r.ticks <= MaxClock
    /\ state' = Put(loaded, sel, r.t)
    /\ file' = save_state(Put(loaded, sel, r.t))
    /\ clock' = clock + r.ticks
    /\ nchecks' = [nchecks EXCEPT ![sel] = @ + 1]
    /\ last' = ObsRecord("check_one", sel, Get(loaded, sel), r, err, cfg, mail)
    /\ sig' = IF r.ok THEN r.s_info ELSE sig
    /\ cls' = IF r.ok THEN r.status ELSE cls
    /\ lastok' = IF r.ok
                 THEN [lastok EXCEPT ![sel] = [hash |-> content_hash(r.s_info), status |-> r.status]]
                 ELSE lastok
    /\ UNCHANGED <<pc, todo, failures, aux>>

CheckSelectedRun(sel, loaded, r, err, cfg, smtp) ==
    CheckSelectedDo(sel, loaded, r, err, cfg, Notify(r, cfg, smtp))

\* button "Check selected"
CheckSelected(sel, resps, cfg, smtp) ==
    /\ pc = "idle"
    /\ Has(load_state(file), sel)
    /\ CheckSelectedRun(sel, load_state(file),
                        perform_check(sel, Get(load_state(file), sel), resps, clock),
                        fetch(sel, resps).err, cfg, smtp)

\* button "Check all now": entering the for loop
CheckAllStart ==
    /\ pc = "idle"
    /\ load_state(file) # <<>>
    /\ clock + Len(load_state(file)) <= MaxClock
    /\ state' = load_state(file)
    /\ todo' = Keys(load_state(file))
    /\ failures' = 0
    /\ pc' = "checkall"
    /\ last' = [NoObs EXCEPT !.op = "check_all_start"]
    /\ UNCHANGED <<file, clock, nchecks, sig, cls, lastok, aux>>

\* lines 280-287 with r the result of perform_check and mail that of
\* send_email; an exception leaving send_email ends the script run before
\* save_state
CheckAllDo(u, r, err, cfg, mail) ==
    /\ clock + r.ticks <= MaxClock
    /\ state' = Put(state, u, r.t)
    /\ failures' = IF mail.raised THEN 0
                   ELSE IF r.status = "ERROR" THEN failures + 1 ELSE failures
    /\ clock' = clock + r.ticks
    /\ nchecks' = [nchecks EXCEPT ![u] = @ + 1]
    /\ last' = ObsRecord("check_all", u, Get(state, u), r, err, cfg, mail)
    /\ sig' = IF r.ok THEN r.s_info ELSE sig
    /\ cls' = IF r.ok THEN r.status ELSE cls
    /\ pc' = IF mail.raised THEN "idle" ELSE "checkall"
    /\ todo' = Tail(todo)
    /\ lastok' = IF r.ok
                 THEN [lastok EXCEPT ![u] = [hash |-> content_hash(r.s_info), status |-> r.status]]
                 ELSE lastok
    /\ UNCHANGED <<file, aux>>

CheckAllRun(u, r, err, cfg, smtp) == CheckAllDo(u, r, err, cfg, Notify(r, cfg, smtp))

\* one iteration of the for loop
CheckAllStep(resps, cfg, smtp) ==
    /\ pc = "checkall"
    /\ todo # <<>>
    /\ CheckAllRun(Head(todo),
                   perform_check(Head(todo), Get(state, Head(todo)), resps, clock),
                   fetch(Head(todo), resps).err, cfg, smtp)

\* after the loop: save_state(state) and the report
CheckAllFinish ==
    /\ pc = "checkall"
    /\ todo = <<>>
    /\ file' = save_state(state)
    /\ pc' = "idle"
    /\ failures' = 0
    /\ last' = [NoObs EXCEPT !.op = "check_all_done", !.report = failures]
    /\ UNCHANGED <<state, todo, clock, nchecks, sig, cls, lastok, aux>>

\* the secrets and the SMTP server matter only to a check that calls send_email
MailInputs(targets, u, resps) ==
    IF Has(targets, u) /\ perform_check(u, Get(targets, u), resps, clock).changed
    THEN Cfgs \X Smtps
    ELSE { <<CHOOSE c \in Cfgs : Configured(c), CHOOSE m \in Smtps : m.connect /\ m.login /\ m.fail_at = 0>> }

Next ==
    \/ \E url \in URLs : \E in \in RegInputs(url) : Register(url, in[1], in[2])
    \/ \E sel \in URLs, resps \in Scripts :
          \E m \in MailInputs(load_state(file), sel, resps) : CheckSelected(sel, resps, m[1], m[2])
    \/ CheckAllStart
    \/ \E resps \in Scripts :
          \E m \in MailInputs(state, IF todo # <<>> THEN Head(todo) ELSE "", resps) :
             CheckAllStep(resps, m[1], m[2])
    \/ CheckAllFinish

Spec == Init /\ [][Next]_vars

-----------------------------------------------------------------------------
(* The classifier on its own: every dict over the four keys *)

Texts ==
    { <<>>,
      <<"welcome">>,
      <<"out", "of", "stock">>,
      <<"in", "stock">>,
      <<"buy", "now">>,
      <<"add", "to", "bag", "unavailable">>,
      <<"please", "notify", "me">>,
      <<"notify", "you", "when", "this", "product", "is", "back", "in", "stock">> }

Opt(k, vals) == {<<>>} \cup { (k :> v) : v \in vals }

SignalSets ==
    { a @@ b @@ c @@ d :
        a \in Opt("notify_button", BOOLEAN),
        b \in Opt("add_to_cart", BOOLEAN),
        c \in Opt("full_text", Texts),
        d \in Opt("product_section", {<<"sold">>}) }

InitClassify ==
    /\ file = <<>>
    /\ state = <<>>
    /\ pc = "idle"
    /\ todo = <<>>
    /\ failures = 0
    /\ clock = 0
    /\ nchecks = [u \in URLs |-> 0]
    /\ last = NoObs
    /\ sig \in SignalSets
    /\ cls = "UNSET"
    /\ lastok = [u \in URLs |-> NoSeen]
    /\ req = NoReq
    /\ resp = NoFetch
    /\ wpos = "closed"
    /\ seen = NoLoad

Classify ==
    /\ cls = "UNSET"
    /\ cls' = stock_status(sig)
    /\ UNCHANGED <<file, state, pc, todo, failures, clock, nchecks, last, sig, lastok, aux>>

Redraw ==
    /\ cls # "UNSET"
    /\ sig' \in SignalSets
    /\ cls' = "UNSET"
    /\ UNCHANGED <<file, state, pc, todo, failures, clock, nchecks, last, lastok, aux>>

NextClassify == Classify \/ Redraw

SpecClassify == InitClassify /\ [][NextClassify]_vars

-----------------------------------------------------------------------------
(* fetch on its own: every way the server can answer three GETs *)

Responses == {Ok(PageBagOut), Http(403), Http(429), Http(404), Http(500), Timeout}

InitFetch ==
    /\ file = <<>>
    /\ state = <<>>
    /\ pc = "idle"
    /\ todo = <<>>
    /\ failures = 0
    /\ clock = 0
    /\ nchecks = [u \in URLs |-> 0]
    /\ last = NoObs
    /\ sig = <<>>
    /\ cls = "UNKNOWN"
    /\ lastok = [u \in URLs |-> NoSeen]
    /\ req \in [url : URLs, resps : [1..3 -> Responses]]
    /\ resp = NoFetch
    /\ wpos = "closed"
    /\ seen = NoLoad

Fetch ==
    /\ resp = NoFetch
    /\ resp' = fetch(req.url, req.resps)
    /\ UNCHANGED <<file, state, pc, todo, failures, clock, nchecks, last, sig, cls,
                   lastok, req, wpos, seen>>

NextRequest ==
    /\ resp # NoFetch
    /\ req' \in [url : URLs, resps : [1..3 -> Responses]]
    /\ resp' = NoFetch
    /\ UNCHANGED <<file, state, pc, todo, failures, clock, nchecks, last, sig, cls,
                   lastok, wpos, seen>>

NextFetch == Fetch \/ NextRequest

SpecFetch == InitFetch /\ [][NextFetch]_vars

-----------------------------------------------------------------------------
(* Properties *)

CheckOps == {"check_one", "check_all"}

Range(seq) == { seq[i] : i \in 1..Len(seq) }

Events(log, ev) == { i \in 1..Len(log) : log[i].event = ev }

\* log is old with exactly one entry appended
AppendedOne(old, log) ==
    /\ Len(log) = Len(old) + 1
    /\ SubSeq(log, 1, Len(old)) = old

\* C1: the first successful check of a target without a previous fingerprint
\* reports changed = false, leaves change_count at 0 and logs no 'changed'
\* entry, whatever was fetched and however many failed checks came before.
C1_FirstCheckNeverChange ==
    (last.op \in CheckOps /\ last.ok /\ last.pre.previous_hash = NoHash)
    => /\ ~last.changed
       /\ last.post.change_count = 0
       /\ Events(last.post.log, "changed") = {}

\* a first successful check that follows a failed one
C1_Witness ==
    /\ last.op \in CheckOps /\ last.ok
    /\ last.pre.previous_hash = NoHash
    /\ last.pre.fail_count >= 1
    /\ last.post.success_count = 1

\* C2: a successful check reports changed, adds 1 to change_count, sets
\* last_change and appends one 'changed' entry exactly when a previous
\* fingerprint existed and the new one differs; otherwise change_count,
\* last_change and the log stay; either way the new fingerprint is stored.
C2_ChangeIffFingerprintDiffers ==
    (last.op \in CheckOps /\ last.ok)
    => LET pre     == last.pre
           post    == last.post
           h       == content_hash(sig)
           differs == pre.previous_hash # NoHash /\ h # pre.previous_hash
       IN  /\ last.changed = differs
           /\ differs =>
                 /\ post.change_count = pre.change_count + 1
                 /\ post.last_change # NoTime
                 /\ post.last_change > pre.last_checked
                 /\ AppendedOne(pre.log, post.log)
                 /\ post.log[Len(post.log)].event = "changed"
                 /\ post.log[Len(post.log)].at = post.last_change
           /\ ~differs =>
                 /\ post.change_count = pre.change_count
                 /\ post.last_change = pre.last_change
                 /\ post.log = pre.log
           /\ post.previous_hash = h

\* a successful check that found a different fingerprint
C2_Witness ==
    /\ last.op \in CheckOps /\ last.ok /\ last.changed
    /\ last.post.change_count = 1

\* C3: a failed check leaves previous fingerprint, last_status, change_count,
\* last_change and success_count as they were.
C3_FailureKeepsObservation ==
    (last.op \in CheckOps /\ ~last.ok)
    => /\ last.post.previous_hash = last.pre.previous_hash
       /\ last.post.last_status = last.pre.last_status
       /\ last.post.change_count = last.pre.change_count
       /\ last.post.last_change = last.pre.last_change
       /\ last.post.success_count = last.pre.success_count

\* a failed check of a target that has been observed before
C3_Witness ==
    /\ last.op \in CheckOps /\ ~last.ok
    /\ last.pre.previous_hash # NoHash
    /\ last.pre.last_status # "UNKNOWN"

\* C4: once a script run has ended, every target's success_count + fail_count
\* is the number of checks performed on it since it was first registered.
C4_CountsMatchInvocations ==
    pc = "idle"
    => \A i \in 1..Len(file) :
          file[i].success_count + file[i].fail_count = nchecks[file[i].url]

\* C5: a fetch failure does not leave the check: status ERROR, changed false,
\* fail_count + 1, last_checked set, last_error the message cut to 300
\* characters, one 'failure' entry with status ERROR appended.
C5_FailureIsRecorded ==
    (last.op \in CheckOps /\ ~last.ok)
    => LET pre  == last.pre
           post == last.post
           e    == post.log[Len(post.log)]
       IN  /\ last.status = "ERROR"
           /\ ~last.changed
           /\ ~last.raised
           /\ post.fail_count = pre.fail_count + 1
           /\ post.last_checked # NoTime /\ post.last_checked > pre.last_checked
           /\ post.last_error.text = last.err.text
           /\ post.last_error.len = Min(last.err.len, 300)
           /\ AppendedOne(pre.log, post.log)
           /\ e.event = "failure" /\ e.status = "ERROR"
           /\ e.error = post.last_error /\ e.at = post.last_checked

\* three rate-limit/block responses in a row, with a message over 300 characters
C5_Witness ==
    /\ last.op \in CheckOps /\ ~last.ok
    /\ last.err.text = "429 Client Error: Too Many Requests for url"
    /\ last.err.len > 300
    /\ last.post.last_error.len = 300
    /\ last.post.fail_count = 1

\* C6: the notifier never raises: a notification the check triggered leaves
\* no exception in the handler, and a check-all loop goes on after it.
C6_NotifierNeverRaises ==
    (last.op \in CheckOps /\ last.mail.opened)
    => /\ ~last.raised
       /\ (last.op = "check_all" => pc = "checkall")

\* C7: when a script run that checked targets has ended, the snapshot on disk
\* holds the records those checks produced.
C7_EveryCheckRecorded ==
    (pc = "idle" /\ last.op \in CheckOps \cup {"check_all_done"})
    => file = state

\* C8: a send to r is attempted in a check of T exactly when the check
\* succeeded with changed = true, r is among T's recipients and the channel is
\* enabled with sender and credential; a session that could not be opened
\* counts as an attempt for every recipient.
C8_SendIffChanged ==
    last.op \in CheckOps
    => LET attempted == IF last.mail.opened /\ last.mail.sent = <<>>
                        THEN Range(last.post.recipients)
                        ELSE Range(last.mail.sent)
       IN  /\ \A r \in {"a@x.com", "b@x.com"} :
                 r \in attempted
                 <=> (last.ok /\ last.changed /\ last.configured
                      /\ r \in Range(last.post.recipients))
           /\ (last.post.recipients = <<>> => ~last.raised)

\* C9: registering a tracked URL keeps its place and every history field, and
\* leaves the other targets alone; registering again with the same
\* configuration leaves the snapshot as it is.
C9_ReRegisterKeepsHistory ==
    [][ last'.op = "register"
        => LET u == last'.url
           IN  Has(file, u)
               => LET old == Get(file, u)
                      new == Get(file', u)
                  IN  /\ Keys(file') = Keys(file)
                      /\ \A i \in 1..Len(file) : file[i].url # u => file'[i] = file[i]
                      /\ new.url = u
                      /\ new.last_status = old.last_status
                      /\ new.previous_hash = old.previous_hash
                      /\ new.last_checked = old.last_checked
                      /\ new.last_change = old.last_change
                      /\ new.change_count = old.change_count
                      /\ new.success_count = old.success_count
                      /\ new.fail_count = old.fail_count
                      /\ new.last_error = old.last_error
                      /\ new.log = old.log
                      /\ ((new.interval_sec = old.interval_sec
                           /\ new.recipients = old.recipients) => file' = file)
      ]_vars

\* a registration of a target that already has a change and a failure on record
C9_Witness ==
    /\ last.op = "register"
    /\ Has(file, last.url)
    /\ Get(file, last.url).change_count >= 1
    /\ Get(file, last.url).fail_count >= 1
    /\ Get(file, last.url).recipients = <<>>

\* C10: the classifier is total and is the ordered cascade: notify affordance,
\* then cart affordance, then out-of-stock text, then in-stock text, else
\* UNKNOWN.
C10_ClassifierCascade ==
    cls # "UNSET"
    => LET notify == "notify_button" \in DOMAIN sig /\ sig["notify_button"]
           cart   == "add_to_cart" \in DOMAIN sig /\ sig["add_to_cart"]
           text   == IF "full_text" \in DOMAIN sig THEN sig["full_text"] ELSE <<>>
           outp   == \E k \in { <<"notify", "me">>, <<"out", "of", "stock">>, <<"unavailable">>,
                                <<"notify", "you", "when", "this", "product", "is", "back", "in", "stock">> } :
                        Contains(k, text)
           inp    == \E k \in { <<"add", "to", "cart">>, <<"add", "to", "bag">>, <<"buy", "now">>,
                                <<"purchase">>, <<"in", "stock">> } :
                        Contains(k, text)
       IN  /\ cls \in {"IN_STOCK", "OUT_OF_STOCK", "UNKNOWN"}
           /\ notify => cls = "OUT_OF_STOCK"
           /\ (~notify /\ cart) => cls = "IN_STOCK"
           /\ (~notify /\ ~cart /\ outp) => cls = "OUT_OF_STOCK"
           /\ (~notify /\ ~cart /\ ~outp /\ inp) => cls = "IN_STOCK"
           /\ (~notify /\ ~cart /\ ~outp /\ ~inp) => cls = "UNKNOWN"

\* both affordances present, no text field: classified OUT_OF_STOCK
C10_Witness ==
    /\ cls = "OUT_OF_STOCK"
    /\ "notify_button" \in DOMAIN sig /\ sig["notify_button"]
    /\ "add_to_cart" \in DOMAIN sig /\ sig["add_to_cart"]
    /\ "full_text" \notin DOMAIN sig

-----------------------------------------------------------------------------
(* Two sessions on one data file: one script run saves while another loads *)

\* load_state on a file that save_state has opened for writing and not yet
\* closed: the document on disk is empty or incomplete, json.load raises and
\* the except branch returns the empty state
load_state_during(f, w) == IF w = "closed" THEN load_state(f) ELSE <<>>

InitConc ==
    /\ file = <<>>
    /\ state = <<>>
    /\ pc = "idle"
    /\ todo = <<>>
    /\ failures = 0
    /\ clock = 0
    /\ nchecks = [u \in URLs |-> 0]
    /\ last = NoObs
    /\ sig = <<>>
    /\ cls = "UNKNOWN"
    /\ lastok = [u \in URLs |-> NoSeen]
    /\ req = NoReq
    /\ resp = NoFetch
    /\ wpos = "closed"
    /\ seen = NoLoad

\* the writer's run up to open(DATA_PATH, "w"), which truncates the file
SaveOpen(url, interval_min, pieces) ==
    /\ wpos = "closed"
    /\ state' = Upsert(load_state(file), url, interval_min, pieces)
    /\ file' = <<>>
    /\ wpos' = "open"
    /\ seen' = [loaded |-> FALSE, targets |-> <<>>, old |-> load_state(file),
                new |-> Upsert(load_state(file), url, interval_min, pieces)]
    /\ UNCHANGED <<pc, todo, failures, clock, nchecks, last, sig, cls, lastok, req, resp>>

\* json.dump has written, and the buffer has flushed, one more target
SaveWrite ==
    /\ wpos = "open"
    /\ Len(file) < Len(state)
    /\ file' = Append(file, state[Len(file) + 1])
    /\ UNCHANGED <<state, pc, todo, failures, clock, nchecks, last, sig, cls, lastok,
                   req, resp, wpos, seen>>

\* leaving the with block: the rest is flushed and the file closed
SaveClose ==
    /\ wpos = "open"
    /\ file' = save_state(state)
    /\ wpos' = "closed"
    /\ UNCHANGED <<state, pc, todo, failures, clock, nchecks, last, sig, cls, lastok,
                   req, resp, seen>>

\* the other session's script run reaches `state = load_state()`
ReaderLoad ==
    /\ seen' = [seen EXCEPT !.loaded = TRUE, !.targets = load_state_during(file, wpos)]
    /\ UNCHANGED <<file, state, pc, todo, failures, clock, nchecks, last, sig, cls, lastok,
                   req, resp, wpos>>

NextConc ==
    \/ \E url \in URLs : \E in \in RegInputs(url) : SaveOpen(url, in[1], in[2])
    \/ SaveWrite
    \/ SaveClose
    \/ ReaderLoad

SpecConc == InitConc /\ [][NextConc]_vars

-----------------------------------------------------------------------------
(* Properties of fetch, of the handlers and of the records *)

Blocked(r) == r.status \in {403, 429}

\* C11: fetch ends after at most 3 GETs: the first answer that is not a
\* rate-limit/block ends it at once, with its content if it is a success and
\* with its error otherwise; every rate-limit/block answer on attempt n is
\* followed by a wait of 5*n seconds, and by another GET while n < 3; three
\* such answers fail with the error of the third.
C11_FetchRetry ==
    resp # NoFetch
    => LET rs == req.resps
           n  == IF \E i \in 1..3 : ~Blocked(rs[i])
                 THEN CHOOSE i \in 1..3 : ~Blocked(rs[i]) /\ \A j \in 1..(i-1) : Blocked(rs[j])
                 ELSE 0
       IN  /\ resp.attempts \in 1..3
           /\ n # 0 =>
                 /\ resp.attempts = n
                 /\ resp.slept = (IF n = 1 THEN 0 ELSE IF n = 2 THEN 5 ELSE 15)
                 /\ rs[n].status = 200 => (resp.ok /\ resp.text = rs[n].body)
                 /\ rs[n].status # 200 =>
                       (~resp.ok /\ resp.err.text = ErrorOf(req.url, rs[n]).text)
           /\ n = 0 =>
                 /\ resp.attempts = 3
                 /\ resp.slept = 5 + 10 + 15
                 /\ ~resp.ok
                 /\ resp.err.text = ErrorOf(req.url, rs[3]).text

\* blocked twice with different codes, then a page on the third GET
C11_Witness ==
    /\ resp.ok /\ resp.attempts = 3 /\ resp.slept = 15
    /\ req.resps[1].status = 403 /\ req.resps[2].status = 429

\* C12: a "Check all now" run checks every tracked target once, in order, and
\* ends with a report whose failure count is the number of targets whose
\* check returned ERROR (after a full pass these are the targets left with a
\* last_error).
C12_CheckAllCoversEveryTarget ==
    (pc = "idle" /\ last.op \in {"check_all", "check_all_done"})
    => /\ last.op = "check_all_done"
       /\ todo = <<>>
       /\ last.report = Cardinality({i \in 1..Len(state) : state[i].last_error # NoError})

\* C13: a load that runs while a save is in progress returns the complete
\* snapshot from before the save or the complete snapshot after it.
C13_ReaderSeesOldOrNew ==
    seen.loaded => (seen.targets = seen.old \/ seen.targets = seen.new)

\* the targets a check step starts from: the in-memory state inside the loop
\* of "Check all now", the loaded file otherwise
CheckBase == IF pc = "checkall" THEN state ELSE load_state(file)

\* C14: a check of target U keeps the set and order of targets, leaves every
\* other target as it was (in memory and, when the handler saves, on disk)
\* and leaves U's url, interval_sec and recipients as they were.
C14_CheckFrame ==
    [][clock' # clock =>
          /\ last'.op \in CheckOps
          /\ Keys(state') = Keys(CheckBase)
          /\ \A i \in 1..Len(CheckBase) :
                /\ CheckBase[i].url # last'.url => state'[i] = CheckBase[i]
                /\ state'[i].interval_sec = CheckBase[i].interval_sec
                /\ state'[i].recipients = CheckBase[i].recipients
          /\ last'.op = "check_one" => file' = state'
          /\ last'.op = "check_all" => file' = file]_vars

\* a check of one target has run while the other target held a history
C14_Witness ==
    /\ last.op \in CheckOps
    /\ last.post # last.pre
    /\ \E i \in 1..Len(state) : state[i].url # last.url /\ state[i].log # <<>>

\* the record new continues the history of the record old
Grows(old, new) ==
    /\ old.change_count >= 0 /\ new.change_count >= old.change_count
    /\ old.success_count >= 0 /\ new.success_count >= old.success_count
    /\ old.fail_count >= 0 /\ new.fail_count >= old.fail_count
    /\ Len(new.log) >= Len(old.log)
    /\ SubSeq(new.log, 1, Len(old.log)) = old.log

GrowsAll(olds, news) ==
    \A i \in 1..Len(olds) :
       Has(news, olds[i].url) /\ Grows(olds[i], Get(news, olds[i].url))

\* C15: across every step of every operation each stored target, and each
\* target of the state the running handler works on, keeps counters that are
\* non-negative and not smaller than before and a log of which the log before
\* is a prefix.
C15_HistoryNeverShrinks ==
    [][GrowsAll(file, file') /\ GrowsAll(CheckBase, state')]_vars

\* a target with a failure and a change in its log has been registered again
C15_Witness ==
    /\ last.op = "register"
    /\ \E i \in 1..Len(file) :
          /\ file[i].url = last.url
          /\ Len(file[i].log) >= 2
          /\ file[i].change_count >= 1
          /\ file[i].fail_count >= 1

\* every target record the program holds, on disk or in memory
Records == Range(file) \cup Range(state)

\* C16: every last_error is at most 300 characters long; once a handler has
\* ended after a successful check of a target, that target's last_error is
\* empty, so a non-empty last_error means the latest check of the target
\* failed; and a non-empty last_error is the error of the record's newest
\* log entry.
C16_LastErrorTracksLatestCheck ==
    /\ \A t \in Records :
          /\ t.last_error.len <= 300
          /\ t.last_error # NoError =>
                /\ t.log # <<>>
                /\ t.log[Len(t.log)].event = "failure"
                /\ t.log[Len(t.log)].error = t.last_error
    /\ (last.op \in CheckOps /\ last.ok) =>
          /\ last.post.last_error = NoError
          /\ pc = "idle" => Get(load_state(file), last.url).last_error = NoError

\* C17: in every target record change_count is the number of 'changed'
\* entries of its log and fail_count the number of 'failure' entries, and
\* the log holds no other kind of entry.
C17_CountersMatchLog ==
    \A t \in Records :
       /\ t.change_count = Cardinality(Events(t.log, "changed"))
       /\ t.fail_count = Cardinality(Events(t.log, "failure"))
       /\ Len(t.log) = t.change_count + t.fail_count

\* a stored target with both kinds of entries, registered again afterwards
C17_Witness ==
    /\ last.op = "register"
    /\ \E t \in Range(file) :
          /\ t.url = last.url
          /\ t.change_count = 1
          /\ t.fail_count = 1
          /\ t.success_count = 2

StoredStatuses == {"IN_STOCK", "OUT_OF_STOCK", "UNKNOWN"}

\* C18: the last_status of every target record is IN_STOCK, OUT_OF_STOCK or
\* UNKNOWN, and UNKNOWN while no check of the target has succeeded; a check
\* returns ERROR exactly when it failed, and a log entry carries ERROR
\* exactly when it is a 'failure' entry.
C18_StoredStatusNeverError ==
    /\ \A t \in Records :
          /\ t.last_status \in StoredStatuses
          /\ (t.success_count = 0 \/ lastok[t.url] = NoSeen) => t.last_status = "UNKNOWN"
          /\ \A i \in 1..Len(t.log) :
                t.log[i].status = "ERROR" <=> t.log[i].event = "failure"
    /\ last.op \in CheckOps =>
          /\ last.status = "ERROR" <=> ~last.ok
          /\ last.ok => last.status \in StoredStatuses

\* a failed check of a target that had been seen out of stock
C18_Witness ==
    /\ last.op \in CheckOps
    /\ last.status = "ERROR"
    /\ last.post.last_status = "OUT_OF_STOCK"
    /\ last.post.log[Len(last.post.log)].status = "ERROR"
    /\ last.post \in Records

\* C19: in every target record previous_hash is absent exactly when
\* success_count is 0, and change_count is 0 when success_count is 0 and at
\* most success_count - 1 otherwise.
C19_BaselineAndCounts ==
    \A t \in Records :
       /\ t.previous_hash = NoHash <=> t.success_count = 0
       /\ t.success_count = 0 => t.change_count = 0
       /\ t.success_count >= 1 => t.change_count <= t.success_count - 1

\* the bound is met: two successes, the second a change, while another
\* record has only failed
C19_Witness ==
    /\ \E t \in Records : t.success_count = 2 /\ t.change_count = 1
    /\ \E t \in Records : t.success_count = 0 /\ t.fail_count >= 1

\* C20: a successful check of a target that has had an earlier successful
\* check (failed checks and re-registrations may lie between them) compares
\* against the fingerprint of that earlier check, and reports changed = true
\* when the two classified statuses differ.
C20_BaselineSurvives ==
    (last.op \in CheckOps /\ last.ok /\ last.base # NoSeen)
    => /\ last.pre.previous_hash = last.base.hash
       /\ last.base.status # last.status => last.changed

====
